---- MODULE Spec2Model ----
\* CommonServerPython: the versioned integration-context update protocol,
\* merge_lists, the IndicatorsSearcher, is_demisto_version_ge, BaseClient's
\* _http_request, support_multithreading, the IntegrationLogger and
\* is_error / get_error, modelled from
\* Packs/Base/Scripts/CommonServerPython/CommonServerPython.py; and the
\* ExtractIndicatorsTransformer script.
EXTENDS Integers, Sequences, FiniteSets, TLC

VARIABLES
    demistoVersion,   \* what demisto.demistoVersion() gives (has = FALSE: no such attribute)
    verCall,          \* the last is_demisto_version_ge call: its arguments and outcome
    mergeCall,        \* the last merge_lists call: its arguments and result
    store,            \* the host's integration context: [context, version]
    otherWrites,      \* writes made by other commands of the integration
    pc,               \* per caller: position in set_to_integration_context_with_retries
    args,             \* per caller: context, object_keys, sync, max_retry_times
    attempt,          \* per caller: the local `attempt`
    integration_context, \* per caller: the local merged context
    version,          \* per caller: the local version
    calls,            \* per caller: the demisto.* calls made, in order
    searcher,         \* the IndicatorsSearcher object's fields
    init_limit,       \* the limit passed to IndicatorsSearcher.__init__
    caller_set_limit, \* whether the caller used the limit setter
    searches,         \* number of demisto.searchIndicators calls made
    last_search,      \* arguments and response of the last searchIndicators call
    done_call,        \* the last direct is_search_done call: state before and return value
    returned,         \* sizes of the results returned by __next__, in order
    client,           \* the BaseClient object: _ok_codes and the adapter mounted on _session
    http_call,        \* the last _http_request call: its arguments, sends and outcome
    lock,             \* demisto.lock: whether it is held
    tpc,              \* per thread: position in locked_do
    do_calls,         \* per thread: number of locked_do calls made
    do_entered,       \* per thread: whether its latest locked_do call entered prev_do
    thread_result,    \* per thread: how its latest locked_do call ended
    logger,           \* the IntegrationLogger object's fields
    host_log,         \* the texts sent to demisto.info / debug / log, in order
    added,            \* the strings passed to add_replace_strs and Len(host_log) then
    log_ops,          \* number of calls made on the logger
    err_call,         \* the last is_error / get_error call: the result and the outcomes
    script_pc,        \* ExtractIndicatorsTransformer.main: position
    script_args,      \* demisto.args() of the script
    command_result,   \* what demisto.executeCommand('extractIndicators') does
    extracted_indicators, \* main's local extracted_indicators
    script_error,     \* the exception main's try statement caught
    script_calls      \* the calls main made on demisto and return_error, in order

verVars == <<verCall>>
mergeVars == <<mergeCall>>
ctxVars == <<store, otherWrites, pc, args, attempt, integration_context, version, calls>>
searchVars == <<searcher, init_limit, caller_set_limit, searches, last_search, done_call, returned>>
httpVars == <<client, http_call>>
baseVars == <<demistoVersion, verVars, mergeVars, ctxVars, searchVars>>
lockVars == <<lock, tpc, do_calls, do_entered, thread_result>>
logVars == <<logger, host_log, added, log_ops>>
errVars == <<err_call>>
scriptVars == <<script_pc, script_args, command_result, extracted_indicators,
                script_error, script_calls>>
libVars == <<httpVars, lockVars, logVars, errVars, scriptVars>>
vars == <<demistoVersion, verCall, mergeCall, store, otherWrites, pc, args, attempt,
          integration_context, version, calls, searcher, init_limit, caller_set_limit,
          searches, last_search, done_call, returned, client, http_call, lock, tpc,
          do_calls, do_entered, thread_result, logger, host_log, added, log_ops,
          err_call, script_pc, script_args, command_result, extracted_indicators,
          script_error, script_calls>>

-----------------------------------------------------------------------------
\* Strings are sequences of character codes; Python compares str values
\* code point by code point.

Dot == 46
Zero == 48

RECURSIVE DecimalString(_)
\* str(n) for a natural number n
DecimalString(n) ==
    IF n < 10 THEN <<Zero + n>>
    ELSE DecimalString(n \div 10) \o <<Zero + (n % 10)>>

RECURSIVE VersionString(_)
\* the dotted string of a version given by its components, e.g. <<6,1,0>> -> "6.1.0"
VersionString(v) ==
    IF Len(v) = 1 THEN DecimalString(v[1])
    ELSE DecimalString(v[1]) \o <<Dot>> \o VersionString(Tail(v))

RECURSIVE StrLess(_, _)
\* Python's a < b on str
StrLess(a, b) ==
    IF b = <<>> THEN FALSE
    ELSE IF a = <<>> THEN TRUE
    ELSE IF a[1] # b[1] THEN a[1] < b[1]
    ELSE StrLess(Tail(a), Tail(b))

StrGreater(a, b) == StrLess(b, a)

IsDigits(s) == s # <<>> /\ \A i \in 1..Len(s) : s[i] \in Zero..(Zero + 9)

RECURSIVE IntOfDigits(_)
IntOfDigits(s) ==
    IF s = <<>> THEN 0 ELSE 10 * IntOfDigits(SubSeq(s, 1, Len(s) - 1)) + (s[Len(s)] - Zero)

\* the build string of a development edition: int() raises ValueError on it
DevBuild == <<100, 101, 118>>

-----------------------------------------------------------------------------
\* is_demisto_version_ge

V5_0_0 == VersionString(<<5, 0, 0>>)

\* "True", "False", or "AttributeError" when the call raises
is_demisto_version_ge(server, ver, build_number) ==
    IF ~server.has
    THEN \* get_demisto_version raises AttributeError
         IF ~StrLess(ver, V5_0_0) THEN "False" ELSE "AttributeError"
    ELSE IF StrGreater(server.version, ver) THEN "True"
    ELSE IF server.version = ver
         THEN IF build_number # <<>>
              THEN IF IsDigits(server.buildNumber) /\ IsDigits(build_number)
                   THEN IF IntOfDigits(server.buildNumber) >= IntOfDigits(build_number)
                        THEN "True" ELSE "False"
                   ELSE "True"      \* except ValueError: return True
              ELSE "True"           \* no build number
         ELSE "False"

-----------------------------------------------------------------------------
\* merge_lists.  A list element is a dict with the fields id, updated and
\* remove; remove = "absent" is a dict without that field, "True" and "False"
\* are the Python booleans and "other" is any value that is neither (1, 'true').
\* A dict is the sequence of its items in insertion order.

RemoveValues == {"absent", "False", "True", "other"}

DictKeys(d) == {d[i].k : i \in 1..Len(d)}

\* d[k] = e: an existing key keeps its position, a new key goes last
DictPut(d, k, e) ==
    IF k \in DictKeys(d)
    THEN [i \in 1..Len(d) |-> IF d[i].k = k THEN [k |-> k, v |-> e] ELSE d[i]]
    ELSE Append(d, [k |-> k, v |-> e])

RECURSIVE DictFromList(_, _)
\* {element[key]: element for element in list}
DictFromList(list, key) ==
    IF list = <<>> THEN <<>>
    ELSE LET front == SubSeq(list, 1, Len(list) - 1)
             e == list[Len(list)]
         IN  DictPut(DictFromList(front, key), e[key], e)

RECURSIVE DictUpdate(_, _)
\* d.update(u)
DictUpdate(d, u) ==
    IF u = <<>> THEN d
    ELSE LET front == SubSeq(u, 1, Len(u) - 1)
         IN  DictPut(DictUpdate(d, front), u[Len(u)].k, u[Len(u)].v)

DictValues(d) == [i \in 1..Len(d) |-> d[i].v]

\* obj.get('remove', False) is False
RemoveIsFalse(obj) == obj.remove \in {"absent", "False"}

\* obj.get('remove', False) is True
RemoveIsTrue(obj) == obj.remove = "True"

merge_lists(original_list, updated_list, key) ==
    LET original_dict == DictUpdate(DictFromList(original_list, key),
                                    DictFromList(updated_list, key))
    IN  SelectSeq(DictValues(original_dict), RemoveIsFalse)

-----------------------------------------------------------------------------
\* Values shared by the specifications

\* Python's None and a value that is not None
None == <<>>
Some(x) == <<x>>

NoAttribute == [has |-> FALSE, version |-> <<>>, buildNumber |-> <<>>]

Server(parts, build) == [has |-> TRUE, version |-> VersionString(parts), buildNumber |-> build]

\* populateFields is available from build 1095800 of 6.1.0
FilterFieldsBuild == DecimalString(1095800)
OlderBuild == DecimalString(1095799)

V6_0_0 == VersionString(<<6, 0, 0>>)
V6_1_0 == VersionString(<<6, 1, 0>>)

ServerParts == {<<5, 5, 0>>, <<6, 0, 0>>, <<6, 1, 0>>, <<6, 2, 0>>, <<10, 0, 0>>}

Servers ==
    {NoAttribute} \cup
    {Server(p, b) : p \in ServerParts, b \in {OlderBuild, FilterFieldsBuild, DevBuild}}

NoVerCall == [called |-> FALSE, version |-> <<>>, build_number |-> <<>>, result |-> "none"]

NoMergeCall == [called |-> FALSE, original |-> <<>>, updated |-> <<>>, key |-> "id",
                result |-> <<>>]

Callers == {"c1", "c2"}

EmptyDict == [k \in {} |-> <<>>]

NoSearcher ==
    [can_use_search_after |-> FALSE, can_use_filter_fields |-> FALSE,
     search_after_param |-> None, page |-> 0, filter_fields |-> None, total |-> None,
     size |-> 0, limit |-> None, total_iocs_fetched |-> 0]

NoSearch == [made |-> FALSE, args |-> EmptyDict, page_before |-> 0,
             search_after_before |-> None, res |-> EmptyDict]

NoDoneCall == [called |-> FALSE, before |-> NoSearcher, ret |-> "none"]

VerIdle == verCall = NoVerCall

MergeIdle == mergeCall = NoMergeCall

CtxIdle ==
    /\ store = [context |-> EmptyDict, version |-> 0]
    /\ otherWrites = 0
    /\ pc = [c \in Callers |-> "returned"]
    /\ args = [c \in Callers |-> EmptyDict]
    /\ attempt = [c \in Callers |-> 0]
    /\ integration_context = [c \in Callers |-> EmptyDict]
    /\ version = [c \in Callers |-> 0]
    /\ calls = [c \in Callers |-> <<>>]

SearchIdle ==
    /\ searcher = NoSearcher
    /\ init_limit = None
    /\ caller_set_limit = FALSE
    /\ searches = 0
    /\ last_search = NoSearch
    /\ done_call = NoDoneCall
    /\ returned = <<>>

\* requests' default adapter: no retries
DefaultAdapter == [total |-> 0, status_forcelist |-> {}, raise_on_status |-> FALSE]

NoClient == [ok_codes |-> {}, adapter |-> DefaultAdapter]

NoHttpCall ==
    [called |-> FALSE, retries |-> 0, ok_codes |-> {}, error_handler |-> "none",
     sends |-> 0, status |-> None, handler_called |-> FALSE, outcome |-> "none",
     res |-> None]

HttpIdle == client = NoClient /\ http_call = NoHttpCall

BaseIdle == demistoVersion = NoAttribute /\ VerIdle /\ MergeIdle /\ CtxIdle /\ SearchIdle

Threads == {"t1", "t2", "t3"}

ThreadsIdle ==
    /\ lock = FALSE
    /\ tpc = [t \in Threads |-> "idle"]
    /\ do_calls = [t \in Threads |-> 0]
    /\ do_entered = [t \in Threads |-> FALSE]
    /\ thread_result = [t \in Threads |-> "none"]

NoLogger ==
    [messages |-> <<>>, write_buf |-> <<>>, replace_strs |-> <<>>, buffering |-> TRUE,
     debug_logging |-> FALSE]

LogIdle == logger = NoLogger /\ host_log = <<>> /\ added = <<>> /\ log_ops = 0

\* entryTypes['note'] and entryTypes['error']
entryTypes_note == 1
entryTypes_error == 4

\* Python values: a str and a list
Str(value) == [type |-> "str", value |-> value]
NotStr == [type |-> "list", value |-> <<>>]

\* how a call ends
Returned(value) == [kind |-> "returned", value |-> value]
Raised(exception) == [kind |-> exception, value |-> NotStr]
NoReturn == [kind |-> "none", value |-> NotStr]

\* command results: None, a dict entry, or a list of dict entries and of
\* items that are not dicts
NoneResult == [kind |-> "None"]
EntryContents == {Str(<<"x">>), Str(<<"y">>), NotStr}
DictEntries == [kind : {"dict"}, Type : {entryTypes_note, entryTypes_error},
                Contents : EntryContents]
ResultItems == DictEntries \cup {[kind |-> "str"]}

IsErrorEntry(entry) == entry.kind = "dict" /\ entry.Type = entryTypes_error

NoErrCall == [called |-> FALSE, result |-> NoneResult, is_error |-> FALSE,
              get_error |-> NoReturn]

ErrorIdle == err_call = NoErrCall

ScriptIdle ==
    /\ script_pc = "exited"
    /\ script_args = EmptyDict
    /\ command_result = NoneResult
    /\ extracted_indicators = EmptyDict
    /\ script_error = "none"
    /\ script_calls = <<>>

LibIdle == HttpIdle /\ ThreadsIdle /\ LogIdle /\ ErrorIdle /\ ScriptIdle

-----------------------------------------------------------------------------
\* SpecVer: is_demisto_version_ge on every server and every checked version

CheckedVersions ==
    {VersionString(p) : p \in {<<4, 5, 0>>, <<5, 0, 0>>, <<5, 5, 0>>, <<6, 0, 0>>,
                               <<6, 1, 0>>, <<6, 2, 0>>}}

CheckedBuilds == {<<>>, FilterFieldsBuild}

InitVer ==
    /\ demistoVersion \in Servers
    /\ \E ver \in CheckedVersions, build_number \in CheckedBuilds :
           verCall = [called |-> FALSE, version |-> ver, build_number |-> build_number,
                      result |-> "none"]
    /\ MergeIdle /\ CtxIdle /\ SearchIdle /\ LibIdle

CallVersionGe ==
    /\ ~verCall.called
    /\ verCall' = [verCall EXCEPT !.called = TRUE,
                      !.result = is_demisto_version_ge(demistoVersion, verCall.version,
                                                       verCall.build_number)]
    /\ UNCHANGED <<libVars, demistoVersion, mergeVars, ctxVars, searchVars>>

NextVer == CallVersionGe

SpecVer == InitVer /\ [][NextVer]_vars

-----------------------------------------------------------------------------
\* SpecMerge: merge_lists on every pair of lists of at most MaxLen elements

MaxLen == 2

IdValues == {"1", "2", "3"}

OriginalElements == [id : IdValues, updated : {"n"}, remove : RemoveValues]
UpdatedElements == [id : IdValues, updated : {"y"}, remove : RemoveValues]

ListsOf(E) == UNION {[1..n -> E] : n \in 0..MaxLen}

InitMerge ==
    /\ demistoVersion = NoAttribute
    /\ \E original \in ListsOf(OriginalElements), updated \in ListsOf(UpdatedElements) :
           mergeCall = [called |-> FALSE, original |-> original, updated |-> updated,
                        key |-> "id", result |-> <<>>]
    /\ VerIdle /\ CtxIdle /\ SearchIdle /\ LibIdle

CallMergeLists ==
    /\ ~mergeCall.called
    /\ mergeCall' = [mergeCall EXCEPT !.called = TRUE,
                        !.result = merge_lists(mergeCall.original, mergeCall.updated,
                                               mergeCall.key)]
    /\ UNCHANGED <<libVars, demistoVersion, verVars, ctxVars, searchVars>>

NextMerge == CallMergeLists

SpecMerge == InitMerge /\ [][NextMerge]_vars

-----------------------------------------------------------------------------
\* The integration context: host calls and the functions around them.
\* A Python dict is a function on its keys; a JSON string is [json |-> value].

CONTEXT_UPDATE_RETRY_TIMES == 3

MIN_VERSION_FOR_VERSIONED_CONTEXT == V6_0_0

DictGet(d, k, default) == IF k \in DOMAIN d THEN d[k] ELSE default

DictSet(d, k, v) == [x \in DOMAIN d \cup {k} |-> IF x = k THEN v ELSE d[x]]

\* json.dumps / json.loads
Dumps(value) == [json |-> value]
Loads(str) == str.json

is_versioned_context_available(server) ==
    is_demisto_version_ge(server, MIN_VERSION_FOR_VERSIONED_CONTEXT, <<>>) = "True"

\* demisto.getIntegrationContextVersioned(sync) and demisto.getIntegrationContext()
HostGetVersioned(st) == [context |-> st.context, version |-> st.version]
HostGet(st) == st.context

\* the record of the demisto call get_integration_context makes
get_integration_context_call(server, sync, st) ==
    IF is_versioned_context_available(server)
    THEN [op |-> "getIntegrationContextVersioned", sync |-> sync,
          context |-> HostGetVersioned(st).context,
          version |-> Some(HostGetVersioned(st).version), ok |-> TRUE]
    ELSE [op |-> "getIntegrationContext", sync |-> sync, context |-> HostGet(st),
          version |-> None, ok |-> TRUE]

\* the bug of never taking the version of the read
get_integration_context_with_version_without_version(server, sync, got) ==
    <<got.context, -1>>

\* <<integration_context, version>> from what get_integration_context gave
get_integration_context_with_version(server, sync, got) ==
    IF is_versioned_context_available(server)
    THEN <<got.context,
           IF sync THEN (IF got.version # None THEN got.version[1] ELSE 0) ELSE -1>>
    ELSE <<got.context, -1>>

RECURSIVE UpdateKeysMergingAll(_, _, _, _)
\* the bug of merging every key, also those that object_keys does not name
UpdateKeysMergingAll(latest, keys, context, object_keys) ==
    IF keys = {} THEN latest
    ELSE LET key == CHOOSE k \in keys : TRUE
             latest_object == Loads(DictGet(latest, key, Dumps(<<>>)))
             value == Dumps(merge_lists(latest_object, context[key], "id"))
         IN  UpdateKeysMergingAll(DictSet(latest, key, value), keys \ {key}, context,
                                  object_keys)

RECURSIVE UpdateKeys(_, _, _, _)
\* the loop of update_integration_context over the keys of `context`
UpdateKeys(latest, keys, context, object_keys) ==
    IF keys = {} THEN latest
    ELSE LET key == CHOOSE k \in keys : TRUE
             latest_object == Loads(DictGet(latest, key, Dumps(<<>>)))
             updated_object == context[key]
             value == IF key \in DOMAIN object_keys
                      THEN Dumps(merge_lists(latest_object, updated_object, object_keys[key]))
                      ELSE Dumps(updated_object)
         IN  UpdateKeys(DictSet(latest, key, value), keys \ {key}, context, object_keys)

\* <<integration_context, version>>
update_integration_context(server, got, context, object_keys, sync) ==
    LET latest == get_integration_context_with_version(server, sync, got)
    IN  <<UpdateKeys(latest[1], DOMAIN context, context, object_keys), latest[2]>>

\* demisto.setIntegrationContextVersioned: a version that is not the current
\* one raises ValueError; -1 asks for no version check
HostAccepts(st, ver) == ver = -1 \/ ver = st.version

HostWrite(st, context) == [context |-> context, version |-> st.version + 1]

-----------------------------------------------------------------------------
\* Spec: two callers of set_to_integration_context_with_retries on one host,
\* next to other commands that write the integration context

MaxRetryTimes == 2
MaxOtherWrites == 2

CtxServers == {NoAttribute, Server(<<6, 0, 0>>, OlderBuild), Server(<<10, 0, 0>>, OlderBuild)}

Element(id) == [id |-> id, updated |-> "y", remove |-> "absent"]

ListKeys == [list |-> "id"]

InitialStores ==
    {[context |-> EmptyDict, version |-> 0],
     [context |-> [list |-> Dumps(<<Element("0")>>), token |-> Dumps(<<Element("t0")>>)],
      version |-> 1]}

Contexts(c) ==
    IF c = "c1"
    THEN {[list |-> <<Element("1")>>],
          [list |-> <<Element("1")>>, token |-> <<Element("t1")>>]}
    ELSE {[list |-> <<Element("2")>>]}

RetryTimes(c) == IF c = "c1" THEN 1..MaxRetryTimes ELSE {CONTEXT_UPDATE_RETRY_TIMES}

Init ==
    /\ demistoVersion \in CtxServers
    /\ store \in InitialStores
    /\ otherWrites = 0
    /\ pc = [c \in Callers |-> "loop"]
    /\ \E k1 \in Contexts("c1"), k2 \in Contexts("c2"),
          o1 \in {EmptyDict, ListKeys}, o2 \in {ListKeys},
          s1 \in BOOLEAN, s2 \in BOOLEAN,
          r1 \in RetryTimes("c1"), r2 \in RetryTimes("c2") :
           args = [c \in Callers |->
                     IF c = "c1"
                     THEN [context |-> k1, object_keys |-> o1, sync |-> s1,
                           max_retry_times |-> r1]
                     ELSE [context |-> k2, object_keys |-> o2, sync |-> s2,
                           max_retry_times |-> r2]]
    /\ attempt = [c \in Callers |-> 0]
    /\ integration_context = [c \in Callers |-> EmptyDict]
    /\ version = [c \in Callers |-> 0]
    /\ calls = [c \in Callers |-> <<>>]
    /\ VerIdle /\ MergeIdle /\ SearchIdle /\ LibIdle

\* the bug of comparing one too far
MaxRetriesReachedOffByOne(attempts, max_retry_times) == attempts = max_retry_times + 1

\* the bug of writing again after a ValueError without reading again
AfterSetWithoutRead(ok) == IF ok THEN "returned" ELSE "set"

\* if attempt == max_retry_times
MaxRetriesReached(attempts, max_retry_times) == attempts = max_retry_times

\* where the loop goes after set_integration_context: break when it returned,
\* sleep and go round again when it raised ValueError
AfterSet(ok) == IF ok THEN "returned" ELSE "loop"

\* if attempt == max_retry_times: raise Exception('... Max retry attempts exceeded.')
RaiseMaxRetries(c) ==
    /\ pc[c] = "loop"
    /\ MaxRetriesReached(attempt[c], args[c].max_retry_times)
    /\ pc' = [pc EXCEPT ![c] = "raised"]
    /\ UNCHANGED <<libVars, demistoVersion, verVars, mergeVars, searchVars, store, otherWrites, args,
                   attempt, integration_context, version, calls>>

\* integration_context, version = update_integration_context(context, object_keys, sync)
UpdateIntegrationContext(c) ==
    /\ pc[c] = "loop"
    /\ ~MaxRetriesReached(attempt[c], args[c].max_retry_times)
    /\ LET got == get_integration_context_call(demistoVersion, args[c].sync, store)
           new == update_integration_context(demistoVersion, got, args[c].context,
                                             args[c].object_keys, args[c].sync)
       IN  /\ integration_context' = [integration_context EXCEPT ![c] = new[1]]
           /\ version' = [version EXCEPT ![c] = new[2]]
           /\ calls' = [calls EXCEPT ![c] = Append(@, got)]
    /\ pc' = [pc EXCEPT ![c] = "set"]
    /\ UNCHANGED <<libVars, demistoVersion, verVars, mergeVars, searchVars, store, otherWrites, args,
                   attempt>>

\* the record of the demisto call set_integration_context makes, with its outcome
set_integration_context_call(server, st, context, sync, ver) ==
    IF is_versioned_context_available(server)
    THEN [op |-> "setIntegrationContextVersioned", sync |-> sync, context |-> context,
          version |-> Some(ver), ok |-> HostAccepts(st, ver)]
    ELSE [op |-> "setIntegrationContext", sync |-> sync, context |-> context,
          version |-> None, ok |-> TRUE]

\* attempt += 1; set_integration_context(integration_context, sync, version):
\* break when it returns, sleep and loop again on ValueError
SetIntegrationContext(c) ==
    /\ pc[c] = "set"
    /\ attempt' = [attempt EXCEPT ![c] = @ + 1]
    /\ LET call == set_integration_context_call(demistoVersion, store, integration_context[c],
                                                args[c].sync, version[c])
       IN  /\ calls' = [calls EXCEPT ![c] = Append(@, call)]
           /\ store' = IF call.ok THEN HostWrite(store, call.context) ELSE store
           /\ pc' = [pc EXCEPT ![c] = AfterSet(call.ok)]
    /\ UNCHANGED <<libVars, demistoVersion, verVars, mergeVars, searchVars, otherWrites, args,
                   integration_context, version>>

\* another command stores the context it read, which moves the version on
OtherWrite ==
    /\ otherWrites < MaxOtherWrites
    /\ otherWrites' = otherWrites + 1
    /\ store' = HostWrite(store, store.context)
    /\ UNCHANGED <<libVars, demistoVersion, verVars, mergeVars, searchVars, pc, args, attempt,
                   integration_context, version, calls>>

Next ==
    \/ \E c \in Callers : RaiseMaxRetries(c)
    \/ \E c \in Callers : UpdateIntegrationContext(c)
    \/ \E c \in Callers : SetIntegrationContext(c)
    \/ OtherWrite

Spec == Init /\ [][Next]_vars

\* each caller is a running call: its next step is taken (the sleep is finite)
CallerStep(c) ==
    RaiseMaxRetries(c) \/ UpdateIntegrationContext(c) \/ SetIntegrationContext(c)

FairSpec == Spec /\ \A c \in Callers : WF_vars(CallerStep(c))

-----------------------------------------------------------------------------
\* IndicatorsSearcher

\* assign_params: the arguments that are not None
assign_params(kwargs) ==
    [k \in {x \in DOMAIN kwargs : kwargs[x] # None} |-> kwargs[k][1]]

\* IndicatorsSearcher.__init__
IndicatorsSearcher_init(server, page, filter_fields, size, limit) ==
    [can_use_search_after |-> is_demisto_version_ge(server, V6_1_0, <<>>) = "True",
     can_use_filter_fields |-> is_demisto_version_ge(server, V6_1_0, FilterFieldsBuild) = "True",
     search_after_param |-> None, page |-> page, filter_fields |-> filter_fields,
     total |-> None, size |-> size, limit |-> limit, total_iocs_fetched |-> 0]

\* the bug of stopping only once the limit is exceeded
reached_limit_when_exceeded(self) ==
    self.limit # None /\ self.limit[1] < self.total_iocs_fetched

\* reached_limit = self.limit is not None and self.limit <= self._total_iocs_fetched
reached_limit(self) == self.limit # None /\ self.limit[1] <= self.total_iocs_fetched

\* what is_search_done returns: "True", "False", or "0" for the number 0
is_search_done(self) ==
    IF reached_limit(self) THEN "True"
    ELSE IF self.total = None THEN "False"
    ELSE IF self.can_use_search_after
         THEN IF self.total[1] = 0 THEN "0"     \* `self.total and ...` gives self.total
              ELSE IF self.search_after_param = None THEN "True" ELSE "False"
         ELSE IF self.total[1] <= self.page * self.size THEN "True" ELSE "False"

\* the searcher after is_search_done: the limit is raised to the number fetched
after_is_search_done(self) ==
    IF reached_limit(self) /\ self.total_iocs_fetched > self.limit[1]
    THEN [self EXCEPT !.limit = Some(self.total_iocs_fetched)]
    ELSE self

\* the arguments search_indicators_by_version gives demisto.searchIndicators
search_args(self, size) ==
    assign_params(
        [size |-> Some(size),
         searchAfter |-> IF self.can_use_search_after THEN self.search_after_param ELSE None,
         populateFields |-> IF self.can_use_filter_fields THEN self.filter_fields ELSE None,
         page |-> IF ~self.can_use_search_after THEN Some(self.page) ELSE None])

\* the searcher after search_indicators_by_version got the response res
after_search(self, res) ==
    [self EXCEPT !.page = @ + 1,
                 !.search_after_param = res.searchAfter,
                 !.total = res.total]

-----------------------------------------------------------------------------
\* SpecSearch: one IndicatorsSearcher, iterated by its owner, with the host
\* answering each search as it likes

MaxSearches == 2
MaxSize == 2

SearchServers ==
    {NoAttribute, Server(<<6, 0, 0>>, FilterFieldsBuild), Server(<<6, 1, 0>>, OlderBuild),
     Server(<<6, 1, 0>>, FilterFieldsBuild), Server(<<10, 0, 0>>, FilterFieldsBuild)}

Pages == {0, 1}
Limits == {None, Some(-1), Some(0), Some(1), Some(3)}
Totals == {None, Some(0), Some(3)}
FilterFields == Some("value,type")

\* a response of demisto.searchIndicators to a search of the given size:
\* iocs is the number of indicators in it
Responses(size, n) ==
    [iocs : 0..size, total : Totals, searchAfter : {None, Some(n)}]

InitSearch ==
    /\ demistoVersion \in SearchServers
    /\ init_limit \in Limits
    /\ \E page \in Pages, size \in 1..MaxSize :
           searcher = IndicatorsSearcher_init(demistoVersion, page, FilterFields, size,
                                              init_limit)
    /\ caller_set_limit = FALSE
    /\ searches = 0
    /\ last_search = NoSearch
    /\ done_call = NoDoneCall
    /\ returned = <<>>
    /\ VerIdle /\ MergeIdle /\ CtxIdle /\ LibIdle

\* demisto.searchIndicators is called with search_args and answers res
Searched(self, size, res) ==
    /\ searches' = searches + 1
    /\ last_search' = [made |-> TRUE, args |-> search_args(self, size),
                       page_before |-> self.page,
                       search_after_before |->
                           IF last_search.made THEN last_search.res.searchAfter ELSE None,
                       res |-> res]

\* __next__, when is_search_done() is true: StopIteration
NextStops ==
    /\ is_search_done(searcher) = "True"
    /\ searcher' = after_is_search_done(searcher)
    /\ done_call' = NoDoneCall
    /\ UNCHANGED <<libVars, demistoVersion, verVars, mergeVars, ctxVars, init_limit, caller_set_limit,
                   searches, last_search, returned>>

\* __next__, when is_search_done() is false: search, then return the result
\* or raise StopIteration when it holds no iocs
NextSearches ==
    /\ is_search_done(searcher) # "True"
    /\ searches < MaxSearches
    /\ \E res \in Responses(searcher.size, searches + 1) :
           /\ Searched(searcher, searcher.size, res)
           /\ searcher' =
                  [after_search(after_is_search_done(searcher), res)
                      EXCEPT !.total_iocs_fetched = @ + res.iocs]
           /\ returned' = IF res.iocs = 0 THEN returned ELSE Append(returned, res.iocs)
    /\ done_call' = NoDoneCall
    /\ UNCHANGED <<libVars, demistoVersion, verVars, mergeVars, ctxVars, init_limit, caller_set_limit>>

\* a call of is_search_done by the owner
CallIsSearchDone ==
    /\ ~done_call.called
    /\ done_call' = [called |-> TRUE, before |-> searcher, ret |-> is_search_done(searcher)]
    /\ searcher' = after_is_search_done(searcher)
    /\ UNCHANGED <<libVars, demistoVersion, verVars, mergeVars, ctxVars, init_limit, caller_set_limit,
                   searches, last_search, returned>>

\* the limit setter
SetLimit ==
    /\ ~caller_set_limit
    /\ \E value \in Limits : searcher' = [searcher EXCEPT !.limit = value]
    /\ caller_set_limit' = TRUE
    /\ done_call' = NoDoneCall
    /\ UNCHANGED <<libVars, demistoVersion, verVars, mergeVars, ctxVars, init_limit, searches,
                   last_search, returned>>

NextSearch ==
    \/ NextStops
    \/ NextSearches
    \/ CallIsSearchDone
    \/ SetLimit

SpecSearch == InitSearch /\ [][NextSearch]_vars

-----------------------------------------------------------------------------
\* Claims on is_demisto_version_ge and merge_lists

RECURSIVE VersionParts(_, _)
\* the numbers of a dotted version string, e.g. "6.1.0" -> <<6, 1, 0>>
VersionParts(s, acc) ==
    IF s = <<>> THEN <<acc>>
    ELSE IF s[1] = Dot THEN <<acc>> \o VersionParts(Tail(s), 0)
    ELSE VersionParts(Tail(s), 10 * acc + (s[1] - Zero))

RECURSIVE PartsLess(_, _)
\* a < b for versions given by their numbers
PartsLess(a, b) ==
    IF b = <<>> THEN FALSE
    ELSE IF a = <<>> THEN TRUE
    ELSE IF a[1] # b[1] THEN a[1] < b[1]
    ELSE PartsLess(Tail(a), Tail(b))

\* server version s >= version v, compared as dotted version numbers
DottedGe(s, v) == ~PartsLess(VersionParts(s, 0), VersionParts(v, 0))

\* C10: is_demisto_version_ge returns True exactly when the server version is
\* greater than or equal to the passed version as dotted version numbers and,
\* when the versions are equal and a build number is passed, exactly when the
\* server build number is greater than or equal to the passed build number.
C10_VersionGeAsDottedNumbers ==
    (verCall.called /\ demistoVersion.has /\ IsDigits(demistoVersion.buildNumber)) =>
        ((verCall.result = "True") <=>
            /\ DottedGe(demistoVersion.version, verCall.version)
            /\ (demistoVersion.version = verCall.version /\ verCall.build_number # <<>>)
                   => IntOfDigits(demistoVersion.buildNumber)
                          >= IntOfDigits(verCall.build_number))

DistinctKeys(list) ==
    \A i, j \in 1..Len(list) : list[i].id = list[j].id => i = j

KeysOf(list) == [i \in 1..Len(list) |-> list[i].id]

\* the element of list whose id is k
ElementOf(list, k) == list[CHOOSE i \in 1..Len(list) : list[i].id = k]

\* original's key values followed by updated's new key values, each with the
\* element of updated when updated has the key and of original otherwise
OnePerKey(original, updated) ==
    LET IsNew(k) == \A i \in 1..Len(original) : original[i].id # k
        keys == KeysOf(original) \o SelectSeq(KeysOf(updated), IsNew)
    IN  [i \in 1..Len(keys) |->
            IF \E j \in 1..Len(updated) : updated[j].id = keys[i]
            THEN ElementOf(updated, keys[i])
            ELSE ElementOf(original, keys[i])]

NotRemoveTrue(obj) == obj.remove # "True"

\* C4: for lists with distinct key values, merge_lists returns one element per
\* key value of either list (updated's when it has the key, else original's),
\* without the elements whose remove field is True, in the order of
\* original's keys followed by updated's new keys.
C4_MergeOnePerKeyWithoutRemoveTrue ==
    (mergeCall.called /\ DistinctKeys(mergeCall.original) /\ DistinctKeys(mergeCall.updated)) =>
        mergeCall.result =
            SelectSeq(OnePerKey(mergeCall.original, mergeCall.updated), NotRemoveTrue)

-----------------------------------------------------------------------------
\* Claims on the integration context protocol

IsGet(call) == call.op \in {"getIntegrationContextVersioned", "getIntegrationContext"}
IsSet(call) == call.op \in {"setIntegrationContextVersioned", "setIntegrationContext"}

SetCalls(c) == SelectSeq(calls[c], IsSet)

\* every demisto call of caller c went to the versioned store
UsesVersionedStore(c) ==
    \A i \in 1..Len(calls[c]) :
        calls[c][i].op \in {"getIntegrationContextVersioned", "setIntegrationContextVersioned"}

StoredList == Loads(DictGet(store.context, "list", Dumps(<<>>)))

InList(list, e) == \E i \in 1..Len(list) : list[i] = e

BothAddedToList ==
    \A c \in Callers :
        /\ pc[c] = "returned"
        /\ args[c].sync
        /\ "list" \in DOMAIN args[c].object_keys
        /\ UsesVersionedStore(c)

AllRejected(c) == \A i \in 1..Len(SetCalls(c)) : ~SetCalls(c)[i].ok

C2_Bounded ==
    \A c \in Callers :
        /\ Len(SetCalls(c)) = attempt[c]
        /\ attempt[c] <= args[c].max_retry_times
        /\ pc[c] = "raised" =>
               (AllRejected(c) /\ Len(SetCalls(c)) = args[c].max_retry_times)
        /\ (AllRejected(c) /\ Len(SetCalls(c)) = args[c].max_retry_times) =>
               pc[c] \in {"loop", "raised"}

\* C2: the call makes at most max_retry_times write attempts, raises exactly
\* when max_retry_times attempts were all rejected, and always terminates.
C2_TerminatesWithinMaxRetries ==
    /\ []C2_Bounded
    /\ \A c \in Callers : <>(pc[c] \in {"returned", "raised"})

\* a caller with three attempts allowed has raised after three rejected writes
C2_Witness ==
    \E c \in Callers :
        /\ pc[c] = "raised"
        /\ args[c].max_retry_times = CONTEXT_UPDATE_RETRY_TIMES
        /\ Len(SetCalls(c)) = CONTEXT_UPDATE_RETRY_TIMES

\* the <<context, version>> the code derives from the read recorded as `got`
MergedFrom(c, got) ==
    update_integration_context(demistoVersion, got, args[c].context, args[c].object_keys,
                               args[c].sync)

\* C3: every write is preceded in its attempt by a fresh read and carries the
\* version and the merged context of that read; a further attempt follows
\* only a write that raised ValueError, and the first write that succeeds is
\* the last call.
C3_ReadThenWritePerAttempt ==
    \A c \in Callers :
        /\ \A i \in 1..Len(calls[c]) :
              LET call == calls[c][i] IN
              /\ IsSet(call) =>
                    /\ i > 1 /\ IsGet(calls[c][i - 1])
                    /\ call.context = MergedFrom(c, calls[c][i - 1])[1]
                    /\ call.version # None =>
                           call.version = Some(MergedFrom(c, calls[c][i - 1])[2])
                    /\ call.ok => i = Len(calls[c])
              /\ IsGet(call) =>
                    /\ i > 1 => (IsSet(calls[c][i - 1]) /\ ~calls[c][i - 1].ok)
                    /\ i < Len(calls[c]) => IsSet(calls[c][i + 1])
        /\ pc[c] = "returned" =>
               (calls[c] # <<>> /\ IsSet(calls[c][Len(calls[c])]) /\ calls[c][Len(calls[c])].ok)

\* a caller returned on its second attempt: read, rejected write, read, write
C3_Witness ==
    \E c \in Callers : pc[c] = "returned" /\ Len(calls[c]) = 4 /\ ~calls[c][2].ok

\* what update_integration_context returned to caller c, checked against the
\* read it made (the last call of c)
C5_Returned ==
    \A c \in Callers :
        pc[c] = "set" =>
            LET got == calls[c][Len(calls[c])]
                ctx == integration_context[c]
                given == args[c].context
                keys == args[c].object_keys
            IN  /\ IsGet(got)
                /\ DOMAIN ctx = DOMAIN got.context \cup DOMAIN given
                /\ \A k \in DOMAIN ctx :
                      ctx[k] =
                          IF k \notin DOMAIN given THEN got.context[k]
                          ELSE IF k \in DOMAIN keys
                          THEN Dumps(merge_lists(Loads(DictGet(got.context, k, Dumps(<<>>))),
                                                 given[k], keys[k]))
                          ELSE Dumps(given[k])
                /\ Some(version[c]) =
                       IF got.version # None /\ args[c].sync THEN got.version ELSE Some(-1)

\* C5: update_integration_context returns the latest stored context changed
\* only at the keys of `context` (merged by merge_lists for a key of
\* object_keys, replaced otherwise), with the version of the read, and it
\* writes nothing to the host.
C5_UpdateChangesOnlyGivenKeys ==
    /\ []C5_Returned
    /\ [][\A c \in Callers : (pc[c] = "loop" /\ pc'[c] = "set") => store' = store]_vars

\* c1 merged its list into a stored list and replaced the stored token; c2
\* carries the stored token it did not name
C5_Witness ==
    /\ pc["c1"] = "set" /\ pc["c2"] = "set"
    /\ "token" \in DOMAIN args["c1"].context
    /\ "list" \in DOMAIN args["c1"].object_keys
    /\ Len(Loads(integration_context["c1"].list)) = 2
    /\ "token" \in DOMAIN integration_context["c2"]

\* the server is at version 6.0.0 or later, as dotted version numbers
VersionedContextServer ==
    demistoVersion.has /\ DottedGe(demistoVersion.version, MIN_VERSION_FOR_VERSIONED_CONTEXT)

\* C6: the version read is the host's exactly when the server is at 6.0.0 or
\* later and sync is True, and -1 otherwise; that version goes to the write;
\* below 6.0.0 the write is demisto.setIntegrationContext, with no version.
C6_VersionOnlyWhenVersionedAndSync ==
    \A c \in Callers :
        /\ pc[c] = "set" =>
               Some(version[c]) =
                   IF VersionedContextServer /\ args[c].sync
                   THEN calls[c][Len(calls[c])].version
                   ELSE Some(-1)
        /\ \A i \in 1..Len(calls[c]) :
               IsSet(calls[c][i]) =>
                   IF VersionedContextServer
                   THEN /\ calls[c][i].op = "setIntegrationContextVersioned"
                        /\ calls[c][i].version =
                               IF args[c].sync THEN calls[c][i - 1].version ELSE Some(-1)
                   ELSE /\ calls[c][i].op = "setIntegrationContext"
                        /\ calls[c][i].version = None

-----------------------------------------------------------------------------
\* Claims on the IndicatorsSearcher

\* C7: is_search_done returns True when (1) the limit is set and is less
\* than or equal to zero, or (2) in search-after mode total is populated and
\* there is no search-after param, or (3) in paging mode total is populated
\* and total <= page * size; and False otherwise.
C7_SearchDoneAsDocumented ==
    done_call.called =>
        LET self == done_call.before
            met == \/ self.limit # None /\ self.limit[1] <= 0
                   \/ /\ self.can_use_search_after
                      /\ self.total # None
                      /\ self.search_after_param = None
                   \/ /\ ~self.can_use_search_after
                      /\ self.total # None
                      /\ self.total[1] <= self.page * self.size
        IN  done_call.ret = IF met THEN "True" ELSE "False"

RECURSIVE Sum(_)
Sum(seq) == IF seq = <<>> THEN 0 ELSE seq[1] + Sum(Tail(seq))

\* the limit was given at construction as a count and the caller left it alone
LimitKept == init_limit # None /\ init_limit[1] >= 0 /\ ~caller_set_limit

SearchAfterServer == demistoVersion.has /\ DottedGe(demistoVersion.version, V6_1_0)

\* C9: below 6.1.0 each search sends the current page number, which then
\* rises by one; from 6.1.0 it sends as searchAfter what the previous
\* response returned (nothing on the first call) and no page number; total
\* holds the total of the latest response.
C9_PagingBelow610SearchAfterFrom610 ==
    last_search.made =>
        /\ searcher.total = last_search.res.total
        /\ IF SearchAfterServer
           THEN /\ "page" \notin DOMAIN last_search.args
                /\ IF last_search.search_after_before = None
                   THEN "searchAfter" \notin DOMAIN last_search.args
                   ELSE /\ "searchAfter" \in DOMAIN last_search.args
                        /\ Some(last_search.args.searchAfter) = last_search.search_after_before
           ELSE /\ "page" \in DOMAIN last_search.args
                /\ last_search.args.page = last_search.page_before
                /\ searcher.page = last_search.page_before + 1
                /\ "searchAfter" \notin DOMAIN last_search.args

-----------------------------------------------------------------------------
\* SpecHttp: a BaseClient and the _http_request calls made on it, one after
\* another, against a server that refuses the first `failures` connection
\* attempts of a request and answers every later one with `status`.

MaxRetries == 2
MaxFailures == 2

Statuses == {200, 404, 500}

OkCodes == {{}, {404}}
ClientOkCodes == {{}, {200}}
\* status_list_to_retry and raise_on_status
RetryPolicies == {<<{}, FALSE>>, <<{500}, FALSE>>, <<{500}, TRUE>>}
ErrorHandlers == {"none", "returns", "raises"}

\* BaseClient.__init__
BaseClient_init(ok_codes) == [ok_codes |-> ok_codes, adapter |-> DefaultAdapter]

\* the adapter _implement_retry mounts on the session
_implement_retry(retries, status_list_to_retry, raise_on_status) ==
    [total |-> retries, status_forcelist |-> status_list_to_retry,
     raise_on_status |-> raise_on_status]

\* self._session.request under the mounted adapter: the number of times the
\* request is sent and what comes back
session_request(adapter, server) ==
    IF server.failures > adapter.total
    THEN [sends |-> adapter.total + 1, raised |-> "ConnectionError", status |-> None]
    ELSE IF server.status \in adapter.status_forcelist
    THEN IF adapter.raise_on_status /\ adapter.total > 0
         THEN [sends |-> adapter.total + 1, raised |-> "RetryError", status |-> None]
         ELSE [sends |-> adapter.total + 1, raised |-> "none",
               status |-> Some(server.status)]
    ELSE [sends |-> server.failures + 1, raised |-> "none", status |-> Some(server.status)]

\* requests.Response.ok
response_ok(status) == ~(400 <= status /\ status < 600)

\* a mutation of _is_status_code_valid that leaves the ok_codes argument out
_is_status_code_valid_by_client_only(self, status, ok_codes) ==
    IF self.ok_codes # {} THEN status \in self.ok_codes ELSE response_ok(status)

_is_status_code_valid(self, status, ok_codes) ==
    LET status_codes == IF ok_codes # {} THEN ok_codes ELSE self.ok_codes
    IN  IF status_codes # {} THEN status \in status_codes ELSE response_ok(status)

\* the session after `if retries: self._implement_retry(...)`
after_implement_retry(self, retries, status_list_to_retry, raise_on_status) ==
    IF retries # 0
    THEN [self EXCEPT !.adapter = _implement_retry(retries, status_list_to_retry,
                                                   raise_on_status)]
    ELSE self

\* _http_request from the request on: the call's record
_http_request(self, retries, ok_codes, error_handler, server, json_ok) ==
    LET sent == session_request(self.adapter, server)
        call == [called |-> TRUE, retries |-> retries, ok_codes |-> ok_codes,
                 error_handler |-> error_handler, sends |-> sent.sends,
                 status |-> sent.status, handler_called |-> FALSE,
                 outcome |-> "none", res |-> None]
    IN  IF sent.raised # "none"
        THEN [call EXCEPT !.outcome = "DemistoException"]
        ELSE IF ~_is_status_code_valid(self, sent.status[1], ok_codes)
                  /\ error_handler = "none"
        THEN [call EXCEPT !.outcome = "DemistoException", !.res = sent.status]
        ELSE IF ~_is_status_code_valid(self, sent.status[1], ok_codes)
                  /\ error_handler = "raises"
        THEN [call EXCEPT !.handler_called = TRUE, !.outcome = "handler exception"]
        ELSE LET handled == [call EXCEPT !.handler_called =
                                ~_is_status_code_valid(self, sent.status[1], ok_codes)]
             IN  IF json_ok
                 THEN [handled EXCEPT !.outcome = "returned"]
                 ELSE [handled EXCEPT !.outcome = "DemistoException", !.res = sent.status]

InitHttp ==
    /\ \E ok_codes \in ClientOkCodes : client = BaseClient_init(ok_codes)
    /\ http_call = NoHttpCall
    /\ BaseIdle /\ ThreadsIdle /\ LogIdle /\ ErrorIdle /\ ScriptIdle

HttpRequest ==
    \E retries \in 0..MaxRetries, ok_codes \in OkCodes, error_handler \in ErrorHandlers,
       policy \in RetryPolicies, failures \in 0..MaxFailures, status \in Statuses,
       json_ok \in BOOLEAN :
        LET self == after_implement_retry(client, retries, policy[1], policy[2])
        IN  /\ client' = self
            /\ http_call' = _http_request(self, retries, ok_codes, error_handler,
                                          [failures |-> failures, status |-> status],
                                          json_ok)
            /\ UNCHANGED <<baseVars, lockVars, logVars, errVars, scriptVars>>

NextHttp == HttpRequest

SpecHttp == InitHttp /\ [][NextHttp]_vars

\* C11: a call with retries = 0 sends the request once, whatever calls were
\* made on the client before it.
C11_NoRetriesSendsOnce ==
    (http_call.called /\ http_call.retries = 0) => http_call.sends = 1

\* valid as the claim has it: by the ok_codes argument when non-empty, else
\* by the client's ok_codes when non-empty, else by response.ok
ValidStatus ==
    IF http_call.ok_codes # {} THEN http_call.status[1] \in http_call.ok_codes
    ELSE IF client.ok_codes # {} THEN http_call.status[1] \in client.ok_codes
    ELSE http_call.status[1] < 400

-----------------------------------------------------------------------------
\* SpecThreads: threads calling demisto._Demisto__do after
\* support_multithreading() replaced it by locked_do.

MaxDoCalls == 2

InitThreads ==
    /\ lock = FALSE
    /\ tpc = [t \in Threads |-> "idle"]
    /\ do_calls = [t \in Threads |-> 0]
    /\ do_entered = [t \in Threads |-> FALSE]
    /\ thread_result = [t \in Threads |-> "none"]
    /\ BaseIdle /\ HttpIdle /\ LogIdle /\ ErrorIdle /\ ScriptIdle

\* a thread calls locked_do(cmd) and waits in demisto.lock.acquire(timeout=60)
CallLockedDo(t) ==
    /\ tpc[t] = "idle"
    /\ do_calls[t] < MaxDoCalls
    /\ do_calls' = [do_calls EXCEPT ![t] = @ + 1]
    /\ tpc' = [tpc EXCEPT ![t] = "acquire"]
    /\ do_entered' = [do_entered EXCEPT ![t] = FALSE]
    /\ thread_result' = [thread_result EXCEPT ![t] = "none"]
    /\ UNCHANGED <<lock, baseVars, httpVars, logVars, errVars, scriptVars>>

\* acquire returns True: the thread holds the lock and enters prev_do(cmd)
Acquire(t) ==
    /\ tpc[t] = "acquire"
    /\ ~lock
    /\ lock' = TRUE
    /\ tpc' = [tpc EXCEPT ![t] = "prev_do"]
    /\ do_entered' = [do_entered EXCEPT ![t] = TRUE]
    /\ UNCHANGED <<do_calls, thread_result, baseVars, httpVars, logVars, errVars, scriptVars>>

\* the lock stayed held for the whole timeout: acquire returns False
AcquireTimeout(t) ==
    /\ tpc[t] = "acquire"
    /\ lock
    /\ tpc' = [tpc EXCEPT ![t] = "idle"]
    /\ thread_result' = [thread_result EXCEPT ![t] = "RuntimeError"]
    /\ UNCHANGED <<lock, do_calls, do_entered, baseVars, httpVars, logVars, errVars, scriptVars>>

\* prev_do(cmd) returns or raises; control passes to the finally clause
PrevDoEnds(t) ==
    /\ tpc[t] = "prev_do"
    /\ \E outcome \in {"returned", "raised"} :
           thread_result' = [thread_result EXCEPT ![t] = outcome]
    /\ tpc' = [tpc EXCEPT ![t] = "finally"]
    /\ UNCHANGED <<lock, do_calls, do_entered, baseVars, httpVars, logVars, errVars, scriptVars>>

\* a mutation of the lock after the try statement: released on return only
lock_after_try_without_finally(outcome) == outcome = "raised"

\* whether the lock is held after the try statement: finally releases it
lock_after_try(outcome) == FALSE

\* finally: demisto.lock.release()
Finally(t) ==
    /\ tpc[t] = "finally"
    /\ lock' = lock_after_try(thread_result[t])
    /\ tpc' = [tpc EXCEPT ![t] = "idle"]
    /\ UNCHANGED <<do_calls, do_entered, thread_result, baseVars, httpVars, logVars, errVars, scriptVars>>

NextThreads ==
    \E t \in Threads :
        \/ CallLockedDo(t)
        \/ Acquire(t)
        \/ AcquireTimeout(t)
        \/ PrevDoEnds(t)
        \/ Finally(t)

SpecThreads == InitThreads /\ [][NextThreads]_vars

\* the threads inside locked_do's try statement
InTry == {t \in Threads : tpc[t] \in {"prev_do", "finally"}}

\* C13: at most one thread is inside the underlying call; the lock is free
\* once the call has returned or raised and its finally clause has run; a
\* thread whose acquire timed out got RuntimeError and did not make the call.
C13_OneThreadInServerCall ==
    /\ Cardinality({t \in Threads : tpc[t] = "prev_do"}) <= 1
    /\ Cardinality(InTry) <= 1
    /\ lock <=> InTry # {}
    /\ \A t \in Threads :
           /\ thread_result[t] = "RuntimeError" => ~do_entered[t]
           /\ thread_result[t] \in {"returned", "raised"} => do_entered[t]
           /\ tpc[t] = "acquire" => ~do_entered[t]

\* one thread's call raised and the lock was released, a second thread is
\* inside the call and a third one timed out waiting for it
C13_Witness ==
    \E t1, t2, t3 \in Threads :
        /\ tpc[t1] = "idle" /\ thread_result[t1] = "raised"
        /\ tpc[t2] = "prev_do"
        /\ tpc[t3] = "idle" /\ thread_result[t3] = "RuntimeError"

-----------------------------------------------------------------------------
\* SpecLog: an IntegrationLogger and the calls made on it. Texts are
\* sequences of characters.

MaxLogOps == 4

XX_REPLACED == <<"<", "X", "X", "_", "R", "E", "P", "L", "A", "C", "E", "D", ">">>

FullIntegrationLog ==
    <<"F", "u", "l", "l", " ", "I", "n", "t", "e", "g", "r", "a", "t", "i", "o", "n",
      " ", "L", "o", "g", ":", "\n">>

\* the messages logged and written, and the strings added for replacement
LogTexts == {<<"a", "b">>, <<"a">>, <<"b", "\n">>}
SensitiveStrings == {<<"a", "b">>, <<"b", "\n">>}

\* str.replace(old, new)
RECURSIVE StrReplace(_, _, _)
StrReplace(st, old, new) ==
    IF Len(st) < Len(old) THEN st
    ELSE IF SubSeq(st, 1, Len(old)) = old
    THEN new \o StrReplace(SubSeq(st, Len(old) + 1, Len(st)), old, new)
    ELSE <<st[1]>> \o StrReplace(Tail(st), old, new)

\* old in st
StrContains(st, old) ==
    \E i \in 1..(Len(st) - Len(old) + 1) : SubSeq(st, i, i + Len(old) - 1) = old

\* "".join(strs) and '\n'.join(strs)
RECURSIVE Join(_, _)
Join(sep, strs) ==
    IF strs = <<>> THEN <<>>
    ELSE IF Len(strs) = 1 THEN strs[1]
    ELSE strs[1] \o sep \o Join(sep, Tail(strs))

stringEscape(st) ==
    StrReplace(StrReplace(StrReplace(st, <<"\r">>, <<"\\", "r">>),
                          <<"\n">>, <<"\\", "n">>),
               <<"\t">>, <<"\\", "t">>)

stringUnEscape(st) ==
    StrReplace(StrReplace(StrReplace(st, <<"\\", "r">>, <<"\r">>),
                          <<"\\", "n">>, <<"\n">>),
               <<"\\", "t">>, <<"\t">>)

\* json.dumps(a) without its quotes
JsonChar(c) ==
    CASE c = "\n" -> <<"\\", "n">>
      [] c = "\r" -> <<"\\", "r">>
      [] c = "\t" -> <<"\\", "t">>
      [] c = "\\" -> <<"\\", "\\">>
      [] c = "\"" -> <<"\\", "\"">>
      [] OTHER -> <<c>>

RECURSIVE json_dumps_unquoted(_)
json_dumps_unquoted(a) ==
    IF a = <<>> THEN <<>> ELSE JsonChar(a[1]) \o json_dumps_unquoted(Tail(a))

\* urllib.parse.quote_plus
QuoteChar(c) ==
    CASE c = "\n" -> <<"%", "0", "A">>
      [] c = "\r" -> <<"%", "0", "D">>
      [] c = "\t" -> <<"%", "0", "9">>
      [] c = "\\" -> <<"%", "5", "C">>
      [] c = "\"" -> <<"%", "2", "2">>
      [] c = "<" -> <<"%", "3", "C">>
      [] c = ">" -> <<"%", "3", "E">>
      [] c = "%" -> <<"%", "2", "5">>
      [] c = ":" -> <<"%", "3", "A">>
      [] c = " " -> <<"+">>
      [] OTHER -> <<c>>

RECURSIVE quote_plus(_)
quote_plus(a) == IF a = <<>> THEN <<>> ELSE QuoteChar(a[1]) \o quote_plus(Tail(a))

\* IntegrationLogger.__init__
IntegrationLogger_init(debug_logging) ==
    [messages |-> <<>>, write_buf |-> <<>>, replace_strs |-> <<>>, buffering |-> TRUE,
     debug_logging |-> debug_logging]

\* the loop of encode over replace_strs
RECURSIVE ReplaceAll(_, _)
ReplaceAll(res, replace_strs) ==
    IF replace_strs = <<>> THEN res
    ELSE ReplaceAll(StrReplace(res, replace_strs[1], XX_REPLACED), Tail(replace_strs))

encode(self, message) == ReplaceAll(message, self.replace_strs)

Sent(fn, text) == [fn |-> fn, text |-> text]

InitLog ==
    /\ \E debug_logging \in BOOLEAN : logger = IntegrationLogger_init(debug_logging)
    /\ host_log = <<>>
    /\ added = <<>>
    /\ log_ops = 0
    /\ BaseIdle /\ HttpIdle /\ ThreadsIdle /\ ErrorIdle /\ ScriptIdle

\* LOG(message)
LogCall ==
    /\ log_ops < MaxLogOps
    /\ \E message \in LogTexts :
        LET text == encode(logger, message)
        IN  IF logger.buffering
            THEN /\ logger' = [logger EXCEPT !.messages = Append(@, text)]
                 /\ host_log' = IF logger.debug_logging
                                THEN Append(host_log, Sent("debug", text))
                                ELSE host_log
            ELSE /\ host_log' = Append(host_log, Sent("info", text))
                 /\ UNCHANGED logger
    /\ log_ops' = log_ops + 1
    /\ UNCHANGED <<added, baseVars, httpVars, lockVars, errVars, scriptVars>>

\* LOG.add_replace_strs(a)
AddReplaceStrs ==
    /\ log_ops < MaxLogOps
    /\ \E s \in SensitiveStrings :
        LET a == encode(logger, s)
        IN  /\ logger' = [logger EXCEPT !.replace_strs =
                             @ \o <<stringEscape(a), stringUnEscape(a),
                                    json_dumps_unquoted(a), quote_plus(a)>>]
            /\ added' = Append(added, [s |-> s, at |-> Len(host_log)])
    /\ log_ops' = log_ops + 1
    /\ UNCHANGED <<host_log, baseVars, httpVars, lockVars, errVars, scriptVars>>

\* LOG.set_buffering(state)
SetBuffering ==
    /\ log_ops < MaxLogOps
    /\ \E state \in BOOLEAN : logger' = [logger EXCEPT !.buffering = state]
    /\ log_ops' = log_ops + 1
    /\ UNCHANGED <<host_log, added, baseVars, httpVars, lockVars, errVars, scriptVars>>

\* LOG.print_log(verbose)
PrintLog ==
    /\ log_ops < MaxLogOps
    /\ \E verbose \in BOOLEAN :
        LET messages == IF logger.write_buf # <<>>
                        THEN Append(logger.messages, Join(<<>>, logger.write_buf))
                        ELSE logger.messages
            text == FullIntegrationLog \o Join(<<"\n">>, messages)
        IN  IF messages # <<>>
            THEN /\ host_log' = host_log
                                \o (IF verbose THEN <<Sent("log", text)>> ELSE <<>>)
                                \o (IF ~logger.debug_logging THEN <<Sent("info", text)>>
                                    ELSE <<>>)
                 /\ logger' = [logger EXCEPT !.messages = <<>>]
            ELSE UNCHANGED <<host_log, logger>>
    /\ log_ops' = log_ops + 1
    /\ UNCHANGED <<added, baseVars, httpVars, lockVars, errVars, scriptVars>>

\* LOG.write(msg)
Write ==
    /\ log_ops < MaxLogOps
    /\ \E m \in LogTexts :
        LET encoded == encode(logger, m)
            has_newline == StrContains(encoded, <<"\n">>)
            msg == IF has_newline /\ encoded[Len(encoded)] = "\n"
                   THEN SubSeq(encoded, 1, Len(encoded) - 1)
                   ELSE encoded
            write_buf == Append(logger.write_buf, msg)
            text == Join(<<>>, write_buf)
        IN  IF has_newline
            THEN IF logger.buffering
                 THEN /\ logger' = [logger EXCEPT !.messages = Append(@, text),
                                                  !.write_buf = <<>>]
                      /\ UNCHANGED host_log
                 ELSE /\ host_log' = Append(host_log, Sent("info", text))
                      /\ logger' = [logger EXCEPT !.write_buf = <<>>]
            ELSE /\ logger' = [logger EXCEPT !.write_buf = write_buf]
                 /\ UNCHANGED host_log
    /\ log_ops' = log_ops + 1
    /\ UNCHANGED <<added, baseVars, httpVars, lockVars, errVars, scriptVars>>

NextLog ==
    \/ LogCall
    \/ AddReplaceStrs
    \/ SetBuffering
    \/ PrintLog
    \/ Write

SpecLog == InitLog /\ [][NextLog]_vars

\* C14: no text sent to the host log after a string was added with
\* add_replace_strs contains that string.
C14_AddedStringsNeverLogged ==
    \A k \in 1..Len(added) :
        \A i \in (added[k].at + 1)..Len(host_log) :
            ~StrContains(host_log[i].text, added[k].s)

-----------------------------------------------------------------------------
\* SpecError: is_error and get_error on every command result of at most
\* MaxEntries items.

MaxEntries == 2

CommandResults ==
    {NoneResult} \cup DictEntries
    \cup {[kind |-> "list", items |-> items] :
              items \in UNION {[1..n -> ResultItems] : n \in 0..MaxEntries}}

\* is_error(execute_command_result)
is_error(execute_command_result) ==
    IF execute_command_result.kind = "None" THEN FALSE
    ELSE IF /\ execute_command_result.kind = "list"
            /\ \E i \in 1..Len(execute_command_result.items) :
                   IsErrorEntry(execute_command_result.items[i])
    THEN TRUE
    ELSE /\ execute_command_result.kind = "dict"
         /\ execute_command_result.Type = entryTypes_error

\* the error_messages list get_error builds from a list result
RECURSIVE error_messages(_)
error_messages(items) ==
    IF items = <<>> THEN <<>>
    ELSE (IF IsErrorEntry(items[1]) THEN <<items[1].Contents>> ELSE <<>>)
         \o error_messages(Tail(items))

\* '\n'.join(error_messages): TypeError unless every item is a str
join_error_messages(messages) ==
    IF \A i \in 1..Len(messages) : messages[i].type = "str"
    THEN Returned(Str(Join(<<"\n">>, [i \in 1..Len(messages) |-> messages[i].value])))
    ELSE Raised("TypeError")

\* get_error(execute_command_result)
get_error(execute_command_result) ==
    IF ~is_error(execute_command_result) THEN Raised("ValueError")
    ELSE IF execute_command_result.kind = "dict"
    THEN Returned(execute_command_result.Contents)
    ELSE join_error_messages(error_messages(execute_command_result.items))

InitError ==
    /\ \E result \in CommandResults :
           err_call = [called |-> FALSE, result |-> result, is_error |-> FALSE,
                       get_error |-> NoReturn]
    /\ BaseIdle /\ HttpIdle /\ ThreadsIdle /\ LogIdle /\ ScriptIdle

CallIsErrorGetError ==
    /\ ~err_call.called
    /\ err_call' = [err_call EXCEPT !.called = TRUE,
                       !.is_error = is_error(err_call.result),
                       !.get_error = get_error(err_call.result)]
    /\ UNCHANGED <<baseVars, httpVars, lockVars, logVars, scriptVars>>

NextError == CallIsErrorGetError

SpecError == InitError /\ [][NextError]_vars

\* the dict entries of Type error a result holds, in order
RECURSIVE ErrorEntriesOf(_)
ErrorEntriesOf(items) ==
    IF items = <<>> THEN <<>>
    ELSE (IF items[1].kind = "dict" /\ items[1].Type = 4 THEN <<items[1]>> ELSE <<>>)
         \o ErrorEntriesOf(Tail(items))

HasErrorEntry(result) ==
    \/ result.kind = "dict" /\ result.Type = 4
    \/ result.kind = "list" /\ ErrorEntriesOf(result.items) # <<>>

\* the Contents of entries, one per line
RECURSIVE ContentsLines(_)
ContentsLines(entries) ==
    IF Len(entries) = 1 THEN entries[1].Contents.value
    ELSE entries[1].Contents.value \o <<"\n">> \o ContentsLines(Tail(entries))

\* C17: is_error is True exactly for a dict entry of Type error and for a
\* list holding such an entry; get_error raises ValueError when is_error is
\* False, returns the Contents of an error dict entry, and for a list
\* returns the Contents of its error entries joined by newlines, in order.
C17_IsErrorGetErrorAsDocumented ==
    err_call.called =>
        LET result == err_call.result
        IN  /\ err_call.is_error = HasErrorEntry(result)
            /\ ~HasErrorEntry(result) => err_call.get_error = Raised("ValueError")
            /\ (HasErrorEntry(result) /\ result.kind = "dict") =>
                   err_call.get_error = Returned(result.Contents)
            /\ (HasErrorEntry(result) /\ result.kind = "list") =>
                   /\ err_call.get_error.kind = "returned"
                   /\ err_call.get_error.value.value =
                          ContentsLines(ErrorEntriesOf(result.items))

-----------------------------------------------------------------------------
\* SpecScript: ExtractIndicatorsTransformer.main, from demisto.args() to
\* its last call on demisto. Type names and the indicator_type argument are
\* sequences of characters.

TypeNames == {<<"I", "P">>, <<"I", "P", "v", "6">>, <<"U", "R", "L">>}

\* args['indicator_type']: absent, empty, or one of these texts (none of
\* them begins with '[', so argToList's json.loads branch is never taken)
IndicatorTypeArgs ==
    {<<>>, <<"i", "p">>, <<"I", "P">>, <<"i", "p", "v", "6">>,
     <<"u", "r", "l", ",", "i", "p">>, <<"i", "p", ",", " ", "U", "R", "L">>}

ContextPaths == {"test"}

ScriptArgs ==
    {EmptyDict} \cup
    {DictSet(EmptyDict, "indicator_type", t) : t \in IndicatorTypeArgs} \cup
    {DictSet(EmptyDict, "context_path", p) : p \in ContextPaths} \cup
    {DictSet(DictSet(EmptyDict, "indicator_type", t), "context_path", p) :
        t \in IndicatorTypeArgs, p \in ContextPaths}

ExtractedDicts == UNION {[S -> {"v"}] : S \in SUBSET TypeNames}

\* the Contents of a note entry: a text that json.loads parses to a dict, or
\* one it does not parse
JsonText(dict) == [type |-> "str", json |-> Some(dict)]
NotJsonText == [type |-> "str", json |-> None]

NoteEntry(contents) == [kind |-> "dict", Type |-> entryTypes_note, Contents |-> contents]
ErrorEntry(contents) == [kind |-> "dict", Type |-> entryTypes_error, Contents |-> contents]

\* what demisto.executeCommand('extractIndicators', ...) does: raises, or
\* returns a list of entries
ScriptCommandResults ==
    {[kind |-> "raises"]} \cup
    {[kind |-> "list", items |-> <<NoteEntry(JsonText(d))>>] : d \in ExtractedDicts} \cup
    {[kind |-> "list", items |-> <<NoteEntry(NotJsonText)>>],
     [kind |-> "list", items |-> <<NoteEntry(JsonText(EmptyDict)),
                                   NoteEntry(JsonText(EmptyDict))>>],
     [kind |-> "list", items |-> <<ErrorEntry(Str(<<"x">>))>>],
     [kind |-> "list", items |-> <<ErrorEntry(NotStr)>>]}

\* str.lower()
LowerChar(c) ==
    CASE c = "I" -> "i"
      [] c = "P" -> "p"
      [] c = "U" -> "u"
      [] c = "R" -> "r"
      [] c = "L" -> "l"
      [] OTHER -> c

StrLower(st) == [i \in 1..Len(st) |-> LowerChar(st[i])]

\* str.strip()
RECURSIVE StrStrip(_)
StrStrip(st) ==
    IF st = <<>> THEN st
    ELSE IF st[1] = " " THEN StrStrip(Tail(st))
    ELSE IF st[Len(st)] = " " THEN StrStrip(SubSeq(st, 1, Len(st) - 1))
    ELSE st

\* str.split(separator), for a separator of one character
RECURSIVE StrSplit(_, _)
StrSplit(st, separator) ==
    IF \A i \in 1..Len(st) : st[i] # separator THEN <<st>>
    ELSE LET i == CHOOSE j \in 1..Len(st) :
                      st[j] = separator /\ \A k \in 1..(j - 1) : st[k] # separator
         IN  <<SubSeq(st, 1, i - 1)>> \o StrSplit(SubSeq(st, i + 1, Len(st)), separator)

\* argToList(arg) of a str
argToList(arg) ==
    IF arg = <<>> THEN <<>>
    ELSE LET parts == StrSplit(arg, ",")
         IN  [i \in 1..Len(parts) |-> StrStrip(parts[i])]

\* a dict with the items of d that have their key in keys
DictFilter(d, keys) == [k \in DOMAIN d \cap keys |-> d[k]]

\* filter_types: the lowered list is computed and dropped; `in` is applied
\* to the text indicators_types itself
filter_types(extracted, indicators_types) ==
    LET lowered == [i \in 1..Len(argToList(indicators_types)) |->
                        StrLower(argToList(indicators_types)[i])]
    IN  DictFilter(extracted,
                   {ind_type \in DOMAIN extracted :
                       StrContains(indicators_types, StrLower(ind_type))})

\* json.loads(contents)
json_loads(contents) ==
    IF contents.type # "str" THEN Raised("TypeError")
    ELSE IF contents.json = None THEN Raised("ValueError")
    ELSE Returned(contents.json[1])

\* execute_command('extractIndicators', ...) on what executeCommand made:
\* the contents, an exception, or a call of return_error
execute_command(made) ==
    IF made.kind = "raises" THEN Raised("Exception")
    ELSE IF is_error(made)
    THEN IF get_error(made).kind = "returned"
         THEN [kind |-> "return_error", value |-> NotStr]
         ELSE Raised(get_error(made).kind)
    ELSE IF Len(made.items) = 1
    THEN Returned(made.items[1].Contents)
    ELSE Returned(NotStr)

\* main up to demisto.setContext: the indicators, or how it failed
main_indicators(script_arguments, made) ==
    LET contents == execute_command(made)
        loaded == json_loads(contents.value)
        extart_types == DictGet(script_arguments, "indicator_type", <<>>)
    IN  IF contents.kind # "returned" THEN contents
        ELSE IF loaded.kind # "returned" THEN loaded
        ELSE IF extart_types # <<>>
        THEN Returned(filter_types(loaded.value, extart_types))
        ELSE loaded

\* a mutation of main's try statement: an exception does not stop main
main_next_without_try(at, raised) ==
    CASE at = "main" -> IF raised THEN "return_error" ELSE "setContext"
      [] at = "setContext" -> "results"
      [] at = "results" -> "done"

\* where main goes after the step at `at`: on to the next call, or to the
\* except clause
main_next(at, raised) ==
    IF raised THEN "return_error"
    ELSE CASE at = "main" -> "setContext"
           [] at = "setContext" -> "results"
           [] at = "results" -> "done"

SetContextCall(path, indicators) ==
    [fn |-> "setContext", path |-> path, value |-> Returned(indicators)]
ResultsCall(indicators) ==
    [fn |-> "results", path |-> "", value |-> Returned(indicators)]
ReturnErrorCall(error) ==
    [fn |-> "return_error", path |-> "", value |-> Raised(error)]
\* return_error's own demisto.results call, with the error entry
ErrorResultsCall(error) ==
    [fn |-> "results", path |-> "", value |-> Raised(error)]

InitScript ==
    /\ script_pc = "main"
    /\ script_args \in ScriptArgs
    /\ command_result \in ScriptCommandResults
    /\ extracted_indicators = EmptyDict
    /\ script_error = "none"
    /\ script_calls = <<>>
    /\ BaseIdle /\ HttpIdle /\ ThreadsIdle /\ LogIdle /\ ErrorIdle

\* args = demisto.args(); execute_command; json.loads; filter_types
ExecuteCommand ==
    /\ script_pc = "main"
    /\ LET indicators == main_indicators(script_args, command_result)
       IN  /\ script_pc' = main_next("main", indicators.kind # "returned")
           /\ IF indicators.kind = "returned"
              THEN /\ extracted_indicators' = indicators.value
                   /\ UNCHANGED script_error
              ELSE /\ script_error' = indicators.kind
                   /\ UNCHANGED extracted_indicators
    /\ UNCHANGED <<script_args, command_result, script_calls>>
    /\ UNCHANGED <<baseVars, httpVars, lockVars, logVars, errVars>>

\* demisto.setContext(args.get('context_path', 'ExtractedIndicators'), ...)
SetContext ==
    /\ script_pc = "setContext"
    /\ \E raises \in BOOLEAN :
        /\ script_pc' = main_next("setContext", raises)
        /\ IF raises
           THEN /\ script_error' = "setContext raised"
                /\ UNCHANGED script_calls
           ELSE /\ script_calls' =
                       Append(script_calls,
                              SetContextCall(DictGet(script_args, "context_path",
                                                     "ExtractedIndicators"),
                                             extracted_indicators))
                /\ UNCHANGED script_error
    /\ UNCHANGED <<script_args, command_result, extracted_indicators>>
    /\ UNCHANGED <<baseVars, httpVars, lockVars, logVars, errVars>>

\* demisto.results(extracted_indicators)
Results ==
    /\ script_pc = "results"
    /\ \E raises \in BOOLEAN :
        /\ script_pc' = main_next("results", raises)
        /\ IF raises
           THEN /\ script_error' = "results raised"
                /\ UNCHANGED script_calls
           ELSE /\ script_calls' = Append(script_calls, ResultsCall(extracted_indicators))
                /\ UNCHANGED script_error
    /\ UNCHANGED <<script_args, command_result, extracted_indicators>>
    /\ UNCHANGED <<baseVars, httpVars, lockVars, logVars, errVars>>

\* return_error: the error entry goes to demisto.results and the script exits
ReturnError ==
    /\ script_pc = "return_error"
    /\ script_calls' = script_calls \o <<ReturnErrorCall(script_error),
                                         ErrorResultsCall(script_error)>>
    /\ script_pc' = "exited"
    /\ UNCHANGED <<script_args, command_result, extracted_indicators, script_error>>
    /\ UNCHANGED <<baseVars, httpVars, lockVars, logVars, errVars>>

NextScript ==
    \/ ExecuteCommand
    \/ SetContext
    \/ Results
    \/ ReturnError

SpecScript == InitScript /\ [][NextScript]_vars

\* the indicators the command extracted, when it made one note entry whose
\* Contents parse
CommandExtracted ==
    /\ command_result.kind = "list"
    /\ Len(command_result.items) = 1
    /\ command_result.items[1].Type = 1
    /\ command_result.items[1].Contents.json # None

ExtractedByCommand == command_result.items[1].Contents.json[1]

\* the requested types: the parts of indicator_type between commas
RequestedTypes ==
    LET parts == argToList(script_args.indicator_type)
    IN  {parts[i] : i \in 1..Len(parts)}

\* C15: with indicator_type given, main's indicators are the extracted
\* entries whose type name equals, ignoring case, a requested type; without
\* it they are all extracted entries.
C15_OutputIsRequestedTypes ==
    (CommandExtracted /\ script_pc \in {"setContext", "results", "done"}) =>
        IF "indicator_type" \in DOMAIN script_args /\ script_args.indicator_type # <<>>
        THEN extracted_indicators =
                 DictFilter(ExtractedByCommand,
                            {t \in DOMAIN ExtractedByCommand :
                                \E r \in RequestedTypes : StrLower(t) = StrLower(r)})
        ELSE extracted_indicators = ExtractedByCommand

\* the calls main has made when no step raised, in order
CallsOfSuccess ==
    <<SetContextCall(IF "context_path" \in DOMAIN script_args
                     THEN script_args.context_path ELSE "ExtractedIndicators",
                     extracted_indicators),
      ResultsCall(extracted_indicators)>>

\* C16: a run in which no step raises makes one setContext call with the
\* context path and the indicators and then one results call with the same
\* indicators; once a step has raised, main makes neither of these calls any
\* more and calls return_error with the error.
C16_SetContextThenResultsOrReturnError ==
    /\ script_error = "none" =>
           /\ script_pc \in {"main", "setContext", "results", "done"}
           /\ script_calls = SubSeq(CallsOfSuccess, 1,
                                    CASE script_pc \in {"main", "setContext"} -> 0
                                      [] script_pc = "results" -> 1
                                      [] script_pc = "done" -> 2)
    /\ script_error # "none" =>
           /\ script_pc \in {"return_error", "exited"}
           /\ \E n \in 0..1 :
                  script_calls =
                      SubSeq(CallsOfSuccess, 1, n)
                      \o (IF script_pc = "exited"
                          THEN <<ReturnErrorCall(script_error),
                                 ErrorResultsCall(script_error)>>
                          ELSE <<>>)
    /\ script_pc = "done" => script_error = "none"

\* demisto.results raised after setContext was called with the indicators of
\* the requested type, and return_error was called
C16_Witness ==
    /\ script_pc = "exited"
    /\ script_error = "results raised"
    /\ Len(script_calls) = 3
    /\ script_calls[1].fn = "setContext" /\ script_calls[1].path = "test"
    /\ script_calls[1].value.value # EmptyDict
    /\ script_calls[2].fn = "return_error"

====
